---------------------------- MODULE Spec2Model ----------------------------
(***************************************************************************)
(* Model of the named, cancellable mutex registry of go-zbase-std:         *)
(*   src/mutex/mutex.go     cancellableMutex, GetOrNewCancellableMutex     *)
(*   src/mutex/registry.go  mutexRegistry, resetRegistry                   *)
(*   src/unnamed/part_001   optional.Option, SomeComplete                  *)
(*                                                                         *)
(* Goroutines (Procs) call the exported operations.  Every access to       *)
(* shared memory (the lock channel, the locked flag, the sync.Map, the     *)
(* atomic.Value holding the registry) is one step, so the interleavings    *)
(* of the model are the interleavings of the Go program.                   *)
(***************************************************************************)
EXTENDS Naturals, Sequences, FiniteSets

(* ------------------------------ bounds -------------------------------- *)
\* goroutines of the concurrent specifications
NProcs == 2
\* locks allocated in the concurrent specifications
LockObjs == 1
\* locks allocated in the sequential specification
SeqObjs == 2
\* registries allocated (one at start, one more per resetRegistry)
MaxRegs == 2
\* locks allocated by the goroutines that use GetOrNewCancellableMutex
KeyObjs == 2

(* ------------------------- program constants -------------------------- *)
\* make(chan struct{}, 1): the capacity of lockChannel
ChanCap == 1

Procs == 1..NProcs
Keys == {"", "a", "b"}
NoObj == 0

VARIABLES
    heap,      \* the cancellableMutex objects allocated so far (a reference is an index)
    regs,      \* the mutexRegistry objects allocated so far, each its mutexMap: key -> reference or NoObj
    registry,  \* the atomic.Value "registry": the index of the current mutexRegistry
    pc,        \* per goroutine: the statement it is about to execute
    frame,     \* per goroutine: the locals of the call in progress
    ret,       \* what the call that returned in the last step returned (NoRet after any other step)
    holds,     \* history: per goroutine, the locks it has locked (Lock returned nil) and not yet called Unlock on
    reentered, \* history: locks whose Lock returned nil to a goroutine that already held them
    got,       \* history: per goroutine, the lock its last GetOrNewCancellableMutex returned since the last reset
    born,      \* history: per lock, the number of registries allocated when it was created
    stored,    \* history: per registry and key, the lock the last Store put under the key (Delete leaves it)
    acquired,  \* history: the locks whose slot some Lock has taken
    opt,       \* the caller's Option variable: the Option it made last, and how it made it
    misused    \* history: the locks on which a goroutine that did not hold them called Unlock

vars == <<heap, regs, registry, pc, frame, ret, holds, reentered, got, born, stored, acquired, opt,
          misused>>

Objs == 1..Len(heap)
Regs == 1..Len(regs)

(* ------------------------------ values -------------------------------- *)
\* The static types T the generic functions of package optional are used
\* with: int, the struct MockComplete of the tests, and the interface types
\* complete.Complete and CancellableMutex.
Types == {"int", "MockComplete", "Complete", "CancellableMutex"}

\* A value with its dynamic type.  The nil interface has no dynamic type.
Nil == [dyn |-> "nil", n |-> 0, isComplete |-> FALSE]

Int(i) == [dyn |-> "int", n |-> i, isComplete |-> FALSE]

\* MockComplete{isComplete: b}
MockComplete(b) == [dyn |-> "MockComplete", n |-> 0, isComplete |-> b]

\* an interface value holding the *cancellableMutex o; o = NoObj is the nil
\* pointer, and the interface value holding it is not nil
Ptr(o) == [dyn |-> "*cancellableMutex", n |-> o, isComplete |-> FALSE]

\* the *cancellableMutex an interface value holds
Ref(v) == IF v.dyn = "*cancellableMutex" THEN v.n ELSE NoObj

\* T's zero value
Zero(T) ==
    CASE T = "int" -> Int(0)
      [] T = "MockComplete" -> MockComplete(FALSE)
      [] T \in {"Complete", "CancellableMutex"} -> Nil

\* the values of static type T the callers pass
ValuesOf(T) ==
    CASE T = "int" -> {Int(0), Int(1)}
      [] T = "MockComplete" -> {MockComplete(FALSE), MockComplete(TRUE)}
      [] T = "Complete" -> {Nil, MockComplete(FALSE), MockComplete(TRUE)}
      [] T = "CancellableMutex" -> {Nil} \cup {Ptr(o) : o \in {NoObj} \cup Objs}

(* ------------------------- cancellableMutex --------------------------- *)
\* mutant: the constructor leaves the key field at its zero value
NewMutexKeyless(k) == [key |-> "", lockChannel |-> 0, locked |-> FALSE]

\* &cancellableMutex{lockChannel: make(chan struct{}, 1), key: key}
NewMutex(k) == [key |-> k, lockChannel |-> 0, locked |-> FALSE]

GetKey(o) == heap[o].key

IsLocked(o) == heap[o].locked

\* mutant: the completeness test inverted
CompleteInverted(o) == heap[o].key = ""

\* cm.key != ""
Complete(o) == heap[o].key # ""

(* ------------------------- optional.Option ---------------------------- *)
\* Option[T]{}: value is T's zero value, some is false
None(T) == [value |-> Zero(T), some |-> FALSE]

\* mutant: the Option built without its flag
SomeNoFlag(v) == [value |-> v, some |-> FALSE]

Some(v) == [value |-> v, some |-> TRUE]

\* (o *Option[T]) Value() (T, bool)
Value(o) == <<o.value, o.some>>

\* c, ok := any(value).(complete.Complete): ok, by the dynamic type of value
ImplementsComplete(v) == v.dyn \in {"MockComplete", "*cancellableMutex"}

\* c.Complete() dereferences a nil receiver: the call panics
NilDereference(c) == c.dyn = "*cancellableMutex" /\ c.n = NoObj

\* c.Complete(), dispatched on the dynamic type of c
CompleteOf(c) == IF c.dyn = "MockComplete" THEN c.isComplete ELSE Complete(c.n)

\* mutant: only the nil interface counts as incomplete
partiallyCompleteNilOnly(c) == c = Nil

\* maybePartial == nil || !maybePartial.Complete()
partiallyComplete(c) == c = Nil \/ ~CompleteOf(c)

\* mutant: the Option built without its value
SomeCompleteNoValue(T, v) ==
    IF ImplementsComplete(v) /\ NilDereference(v)
    THEN <<None(T), "panic", Nil>>
    ELSE IF ImplementsComplete(v) /\ partiallyComplete(v)
    THEN <<None(T), "IncompleteTypeError", v>>
    ELSE <<Some(Zero(T)), "nil", Nil>>

\* SomeComplete[T](value): <<option, err, err.Incomplete>>; err is "panic"
\* when the call does not return
SomeComplete(T, v) ==
    IF ImplementsComplete(v) /\ NilDereference(v)
    THEN <<None(T), "panic", Nil>>
    ELSE IF ImplementsComplete(v) /\ partiallyComplete(v)
    THEN <<None(T), "IncompleteTypeError", v>>
    ELSE <<Some(v), "nil", Nil>>

(* ------------------------------ context ------------------------------- *)
\* A context is Background (never done), Pending (cancellable, not yet done),
\* or done with its reason.
CtxStates == {"Background", "Pending", "Canceled", "DeadlineExceeded"}

\* mutant: only a cancellation closes the Done channel, a deadline does not
CtxDoneCancelOnly(c) == c = "Canceled"

\* <-ctx.Done() is ready
CtxDone(c) == c \in {"Canceled", "DeadlineExceeded"}

\* mutant: every done context reported as cancelled
CtxErrCanceled(c) == IF CtxDone(c) THEN "Canceled" ELSE "nil"

\* mutant: the error read as if the context were not done yet
CtxErrNotDone(c) == "nil"

\* ctx.Err()
CtxErr(c) == IF CtxDone(c) THEN c ELSE "nil"

(* ------------------------------ frames -------------------------------- *)
\* looked is history: in a GetOrNewCancellableMutex call, the registry the
\* call fetched for its lookup (line 120)
NoFrame == [key |-> "", reg |-> 0, mutex |-> NoObj, ctx |-> "Background",
            outer |-> FALSE, claimed |-> FALSE, looked |-> 0]

NoRet == [proc |-> 0, op |-> "none", key |-> "", reg |-> 0, mutex |-> NoObj,
          value |-> NoObj, some |-> FALSE, err |-> "nil", ctx |-> "Background",
          claimed |-> FALSE, type |-> "int", arg |-> Nil, val |-> Nil, incomplete |-> Nil,
          looked |-> 0]

\* var opt Option[T], not assigned yet
NoOpt == [option |-> None("int"), op |-> "none", type |-> "int", arg |-> Nil]

\* the call of p returns r
Return(p, r) ==
    /\ pc' = [pc EXCEPT ![p] = "idle"]
    /\ frame' = [frame EXCEPT ![p] = NoFrame]
    /\ ret' = [r EXCEPT !.proc = p]

\* the call of p goes on at label with locals f
Goto(p, label, f) ==
    /\ pc' = [pc EXCEPT ![p] = label]
    /\ frame' = [frame EXCEPT ![p] = f]
    /\ ret' = NoRet

\* allocations still to come from calls in progress (GetOrNewCancellableMutex
\* allocates after its lookup)
Reserved ==
    Cardinality({p \in Procs : frame[p].outer /\
                     pc[p] \in {"GetOrNew_GetMutex", "GetMutex_delete", "GetOrNew_New"}})

EmptyMap == [k \in Keys |-> NoObj]

\* var registry = newAtomicRegistry(); no lock exists yet
Init ==
    /\ heap = <<>>
    /\ regs = <<EmptyMap>>
    /\ registry = 1
    /\ pc = [p \in Procs |-> "idle"]
    /\ frame = [p \in Procs |-> NoFrame]
    /\ ret = NoRet
    /\ holds = [p \in Procs |-> {}]
    /\ reentered = {}
    /\ got = [p \in Procs |-> NoObj]
    /\ born = <<>>
    /\ stored = <<EmptyMap>>
    /\ acquired = {}
    /\ opt = NoOpt
    /\ misused = {}

\* a new object on the heap; its reference is Len(heap) + 1
Alloc(m) ==
    /\ heap' = Append(heap, m)
    /\ born' = Append(born, Len(regs))

(* --------------------- NewCancellableMutex(key) ----------------------- *)
\* mutant: the constructor also stores the lock in the current registry
NewCancellableMutexRegistered(p, k) ==
    /\ pc[p] = "idle"
    /\ Alloc(NewMutex(k))
    /\ regs' = [regs EXCEPT ![registry][k] = Len(heap) + 1]
    /\ Return(p, [NoRet EXCEPT !.op = "New", !.key = k, !.value = Len(heap) + 1])
    /\ UNCHANGED <<registry, holds, reentered, got, stored, acquired, opt, misused>>

NewCancellableMutex(p, k) ==
    /\ pc[p] = "idle"
    /\ Alloc(NewMutex(k))
    /\ Return(p, [NoRet EXCEPT !.op = "New", !.key = k, !.value = Len(heap) + 1])
    /\ UNCHANGED <<regs, registry, holds, reentered, got, stored, acquired, opt, misused>>

\* cm.GetKey()
GetKeyCall(p, o) ==
    /\ pc[p] = "idle"
    /\ Return(p, [NoRet EXCEPT !.op = "GetKey", !.mutex = o, !.key = GetKey(o)])
    /\ UNCHANGED <<heap, regs, registry, holds, reentered, got, born, stored, acquired, opt, misused>>

\* cm.IsLocked()
IsLockedCall(p, o) ==
    /\ pc[p] = "idle"
    /\ Return(p, [NoRet EXCEPT !.op = "IsLocked", !.mutex = o, !.some = IsLocked(o)])
    /\ UNCHANGED <<heap, regs, registry, holds, reentered, got, born, stored, acquired, opt, misused>>

(* ------------------------ cm.Lock(ctx) -------------------------------- *)
\* mutant: the channel made with room for two tokens
CanSendTwo(o) == heap[o].lockChannel < ChanCap + 1

\* case cm.lockChannel <- struct{}{} is ready: the buffer has room
CanSend(o) == heap[o].lockChannel < ChanCap

LockCall(p, o, c) ==
    /\ pc[p] = "idle"
    /\ Goto(p, "Lock_select", [NoFrame EXCEPT !.mutex = o, !.ctx = c])
    /\ UNCHANGED <<heap, regs, registry, holds, reentered, got, born, stored, acquired, opt, misused>>

\* the context of a Lock call in progress is cancelled or its deadline passes
CtxFire(p, reason) ==
    /\ pc[p] = "Lock_select"
    /\ frame[p].ctx = "Pending"
    /\ frame' = [frame EXCEPT ![p].ctx = reason]
    /\ ret' = NoRet
    /\ UNCHANGED <<heap, regs, registry, pc, holds, reentered, got, born, stored, acquired, opt, misused>>

\* select takes the send case
LockSend(p) ==
    /\ pc[p] = "Lock_select"
    /\ CanSend(frame[p].mutex)
    /\ heap' = [heap EXCEPT ![frame[p].mutex].lockChannel = @ + 1]
    /\ Goto(p, "Lock_locked", [frame[p] EXCEPT !.claimed = TRUE])
    /\ acquired' = acquired \cup {frame[p].mutex}
    /\ UNCHANGED <<regs, registry, holds, reentered, got, born, stored, opt, misused>>

\* cm.locked = true; return nil
LockSetLocked(p) ==
    /\ pc[p] = "Lock_locked"
    /\ heap' = [heap EXCEPT ![frame[p].mutex].locked = TRUE]
    /\ holds' = [holds EXCEPT ![p] = @ \cup {frame[p].mutex}]
    /\ reentered' = IF frame[p].mutex \in holds[p]
                    THEN reentered \cup {frame[p].mutex} ELSE reentered
    /\ Return(p, [NoRet EXCEPT !.op = "Lock", !.mutex = frame[p].mutex, !.err = "nil",
                               !.ctx = frame[p].ctx, !.claimed = frame[p].claimed])
    /\ UNCHANGED <<regs, registry, got, born, stored, acquired, opt, misused>>

\* select takes the <-ctx.Done() case; return ctx.Err()
LockCtxDone(p) ==
    /\ pc[p] = "Lock_select"
    /\ CtxDone(frame[p].ctx)
    /\ Return(p, [NoRet EXCEPT !.op = "Lock", !.mutex = frame[p].mutex,
                               !.err = CtxErr(frame[p].ctx),
                               !.ctx = frame[p].ctx, !.claimed = frame[p].claimed])
    /\ UNCHANGED <<heap, regs, registry, holds, reentered, got, born, stored, acquired, opt, misused>>

(* ------------------------- cm.Unlock() -------------------------------- *)
\* mutant: Unlock goes to the receive without looking at the locked flag
UnlockCallUnchecked(p, o) ==
    /\ pc[p] = "idle"
    /\ holds' = [holds EXCEPT ![p] = @ \ {o}]
    /\ misused' = IF o \in holds[p] THEN misused ELSE misused \cup {o}
    /\ Goto(p, "Unlock_recv", [NoFrame EXCEPT !.mutex = o])
    /\ UNCHANGED <<heap, regs, registry, reentered, got, born, stored, acquired, opt>>

\* if cm.locked {
UnlockCall(p, o) ==
    /\ pc[p] = "idle"
    /\ holds' = [holds EXCEPT ![p] = @ \ {o}]
    /\ misused' = IF o \in holds[p] THEN misused ELSE misused \cup {o}
    /\ IF IsLocked(o)
       THEN Goto(p, "Unlock_recv", [NoFrame EXCEPT !.mutex = o])
       ELSE Return(p, [NoRet EXCEPT !.op = "Unlock", !.mutex = o])
    /\ UNCHANGED <<heap, regs, registry, reentered, got, born, stored, acquired, opt>>

\* mutant: the receive waits for a second token
CanRecvTwo(o) == heap[o].lockChannel > ChanCap

\* <-cm.lockChannel is ready: the buffer holds a token
CanRecv(o) == heap[o].lockChannel > 0

\* mutant: Unlock clears the flag without taking the token out of the channel
UnlockRecvSkipped(p) ==
    /\ pc[p] = "Unlock_recv"
    /\ Goto(p, "Unlock_clear", frame[p])
    /\ UNCHANGED <<heap, regs, registry, holds, reentered, got, born, stored, acquired, opt, misused>>

\* <-cm.lockChannel
UnlockRecv(p) ==
    /\ pc[p] = "Unlock_recv"
    /\ CanRecv(frame[p].mutex)
    /\ heap' = [heap EXCEPT ![frame[p].mutex].lockChannel = @ - 1]
    /\ Goto(p, "Unlock_clear", frame[p])
    /\ UNCHANGED <<regs, registry, holds, reentered, got, born, stored, acquired, opt, misused>>

\* cm.locked = false
UnlockClear(p) ==
    /\ pc[p] = "Unlock_clear"
    /\ heap' = [heap EXCEPT ![frame[p].mutex].locked = FALSE]
    /\ Return(p, [NoRet EXCEPT !.op = "Unlock", !.mutex = frame[p].mutex, !.claimed = TRUE])
    /\ UNCHANGED <<regs, registry, holds, reentered, got, born, stored, acquired, opt, misused>>

(* ---------------------- calls of package optional --------------------- *)
\* opt = optional.None[T]()
OptionNone(p, T) ==
    /\ pc[p] = "idle"
    /\ opt' = [option |-> None(T), op |-> "None", type |-> T, arg |-> Nil]
    /\ Return(p, [NoRet EXCEPT !.op = "None", !.type = T])
    /\ UNCHANGED <<heap, regs, registry, holds, reentered, got, born, stored, acquired, misused>>

\* opt = optional.Some[T](v)
OptionSome(p, T, v) ==
    /\ pc[p] = "idle"
    /\ opt' = [option |-> Some(v), op |-> "Some", type |-> T, arg |-> v]
    /\ Return(p, [NoRet EXCEPT !.op = "Some", !.type = T, !.arg = v])
    /\ UNCHANGED <<heap, regs, registry, holds, reentered, got, born, stored, acquired, misused>>

\* opt, err = optional.SomeComplete[T](v); a call that panics does not return
\* and assigns nothing
OptionSomeComplete(p, T, v) ==
    LET option == SomeComplete(T, v)[1]
        err == SomeComplete(T, v)[2]
        incomplete == SomeComplete(T, v)[3]
        r == [NoRet EXCEPT !.op = "SomeComplete", !.type = T, !.arg = v, !.err = err,
                           !.incomplete = incomplete, !.proc = p]
    IN  /\ pc[p] = "idle"
        /\ IF err = "panic"
           THEN /\ pc' = [pc EXCEPT ![p] = "panicked"]
                /\ ret' = r
                /\ UNCHANGED <<frame, opt, misused>>
           ELSE /\ opt' = [option |-> option, op |-> "SomeComplete", type |-> T, arg |-> v]
                /\ Return(p, r)
        /\ UNCHANGED <<heap, regs, registry, holds, reentered, got, born, stored, acquired, misused>>

\* value, some := opt.Value()
OptionValue(p) ==
    /\ pc[p] = "idle"
    /\ Return(p, [NoRet EXCEPT !.op = "Value", !.type = opt.type,
                               !.val = Value(opt.option)[1], !.some = Value(opt.option)[2]])
    /\ UNCHANGED <<heap, regs, registry, holds, reentered, got, born, stored, acquired, opt, misused>>

(* ------------------------- mutexRegistry ------------------------------ *)
\* registry.Load().(mutexRegistryHolder).rh
GetMutexRegistry == registry

\* reg := GetMutexRegistry()
GetMutexRegistryCall(p) ==
    /\ pc[p] = "idle"
    /\ Return(p, [NoRet EXCEPT !.op = "GetMutexRegistry", !.reg = GetMutexRegistry])
    /\ UNCHANGED <<heap, regs, registry, holds, reentered, got, born, stored, acquired, opt, misused>>

\* mr.mutexMap.Load(key): <<value, ok>>
MapLoad(r, k) == <<regs[r][k], regs[r][k] # NoObj>>

\* mutant: the result of the Load read the wrong way round
HasMutexNegated(r, k) == IF MapLoad(r, k)[2] THEN FALSE ELSE TRUE

\* mr.HasMutex(key)
HasMutex(r, k) == IF MapLoad(r, k)[2] THEN TRUE ELSE FALSE

\* GetOrNewCancellableMutex(k) returns o; some tells whether the lookup found it
GetOrNewReturn(p, k, o, some) ==
    /\ Return(p, [NoRet EXCEPT !.op = "GetOrNew", !.key = k, !.value = o, !.some = some,
                               !.reg = frame[p].reg, !.looked = frame[p].looked])
    /\ got' = [got EXCEPT ![p] = o]

HasMutexCall(p, r, k) ==
    /\ pc[p] = "idle"
    /\ Return(p, [NoRet EXCEPT !.op = "HasMutex", !.key = k, !.reg = r, !.some = HasMutex(r, k)])
    /\ UNCHANGED <<heap, regs, registry, holds, reentered, got, born, stored, acquired, opt, misused>>

\* GetMutex up to its return or its Delete: the Load of the key and the check
\* of the entry found
GetMutexLoad(p, r, k, outer) ==
    LET m == MapLoad(r, k)[1]
        ok == MapLoad(r, k)[2]
        option == SomeComplete("CancellableMutex", Ptr(m))[1]
        err == SomeComplete("CancellableMutex", Ptr(m))[2]
    IN  IF ok /\ err = "nil"
        THEN IF outer
             THEN GetOrNewReturn(p, k, Ref(Value(option)[1]), Value(option)[2])
             ELSE /\ Return(p, [NoRet EXCEPT !.op = "GetMutex", !.key = k, !.reg = r,
                                            !.value = Ref(Value(option)[1]), !.some = Value(option)[2]])
                  /\ UNCHANGED got
        ELSE IF ok
        THEN /\ Goto(p, "GetMutex_delete", [NoFrame EXCEPT !.key = k, !.reg = r, !.outer = outer,
                                                       !.looked = frame[p].looked])
             /\ UNCHANGED got
        ELSE IF outer
        THEN /\ Goto(p, "GetOrNew_New", [NoFrame EXCEPT !.key = k, !.outer = TRUE,
                                                    !.looked = frame[p].looked])
             /\ UNCHANGED got
        ELSE /\ Return(p, [NoRet EXCEPT !.op = "GetMutex", !.key = k, !.reg = r,
                                       !.value = Ref(Value(None("CancellableMutex"))[1]),
                                       !.some = Value(None("CancellableMutex"))[2]])
             /\ UNCHANGED got

\* reg.GetMutex(key) called on a registry handle
GetMutexCall(p, r, k) ==
    /\ pc[p] = "idle"
    /\ GetMutexLoad(p, r, k, FALSE)
    /\ UNCHANGED <<heap, regs, registry, holds, reentered, born, stored, acquired, opt, misused>>

\* mutant: the entry found incomplete is left in the map
GetMutexDeleteSkipped(p) ==
    /\ pc[p] = "GetMutex_delete"
    /\ IF frame[p].outer
       THEN Goto(p, "GetOrNew_New", [NoFrame EXCEPT !.key = frame[p].key, !.outer = TRUE,
                                                   !.looked = frame[p].looked])
       ELSE Return(p, [NoRet EXCEPT !.op = "GetMutex", !.key = frame[p].key, !.reg = frame[p].reg,
                                   !.value = Ref(Value(None("CancellableMutex"))[1]),
                                   !.some = Value(None("CancellableMutex"))[2],
                                   !.claimed = TRUE])
    /\ UNCHANGED <<heap, regs, registry, holds, reentered, got, born, stored, acquired, opt, misused>>

\* mr.mutexMap.Delete(key); return optional.None
GetMutexDelete(p) ==
    /\ pc[p] = "GetMutex_delete"
    /\ regs' = [regs EXCEPT ![frame[p].reg][frame[p].key] = NoObj]
    /\ IF frame[p].outer
       THEN Goto(p, "GetOrNew_New", [NoFrame EXCEPT !.key = frame[p].key, !.outer = TRUE,
                                                   !.looked = frame[p].looked])
       ELSE Return(p, [NoRet EXCEPT !.op = "GetMutex", !.key = frame[p].key, !.reg = frame[p].reg,
                                   !.value = Ref(Value(None("CancellableMutex"))[1]),
                                   !.some = Value(None("CancellableMutex"))[2],
                                   !.claimed = TRUE])
    /\ UNCHANGED <<heap, registry, holds, reentered, got, born, stored, acquired, opt, misused>>

\* mutant: Register stores without the HasMutex check
RegisterHasUnchecked(p, r, o, outer) ==
    /\ Goto(p, "Register_store",
            [NoFrame EXCEPT !.key = IF outer THEN frame[p].key ELSE GetKey(o),
                            !.reg = r, !.mutex = o, !.outer = outer,
                            !.looked = frame[p].looked])
    /\ UNCHANGED got

\* Register up to its return or its Store: the HasMutex check
RegisterHas(p, r, o, outer) ==
    IF HasMutex(r, GetKey(o))
    THEN IF outer
         THEN GetOrNewReturn(p, frame[p].key, o, FALSE)
         ELSE /\ Return(p, [NoRet EXCEPT !.op = "Register", !.key = GetKey(o), !.reg = r,
                                        !.mutex = o, !.err = "AlreadyRegistered"])
              /\ UNCHANGED got
    ELSE /\ Goto(p, "Register_store",
                 [NoFrame EXCEPT !.key = IF outer THEN frame[p].key ELSE GetKey(o),
                                 !.reg = r, !.mutex = o, !.outer = outer,
                            !.looked = frame[p].looked])
         /\ UNCHANGED got

\* reg.Register(mutex) called on a registry handle
RegisterCall(p, r, o) ==
    /\ pc[p] = "idle"
    /\ RegisterHas(p, r, o, FALSE)
    /\ UNCHANGED <<heap, regs, registry, holds, reentered, born, stored, acquired, opt, misused>>

\* mr.mutexMap.Store(mutex.GetKey(), mutex); return nil
RegisterStore(p) ==
    /\ pc[p] = "Register_store"
    /\ regs' = [regs EXCEPT ![frame[p].reg][GetKey(frame[p].mutex)] = frame[p].mutex]
    /\ stored' = [stored EXCEPT ![frame[p].reg][GetKey(frame[p].mutex)] = frame[p].mutex]
    /\ IF frame[p].outer
       THEN GetOrNewReturn(p, frame[p].key, frame[p].mutex, FALSE)
       ELSE /\ Return(p, [NoRet EXCEPT !.op = "Register", !.key = frame[p].key, !.reg = frame[p].reg,
                                      !.mutex = frame[p].mutex, !.err = "nil"])
            /\ UNCHANGED got
    /\ UNCHANGED <<heap, registry, holds, reentered, born, acquired, opt, misused>>

(* ------------------ GetOrNewCancellableMutex(key) --------------------- *)
\* GetOrNewCancellableMutex(k) may be called while at most cap locks get
\* allocated: fewer than cap exist or are about to, or the registry in use
\* holds a lock under k that GetMutex(k) returns, so that the call makes none
CanGetOrNew(k, cap) ==
    \/ Len(heap) + Reserved < cap
    \/ k # "" /\ HasMutex(GetMutexRegistry, k)

\* GetMutexRegistry() of line 120
GetOrNewCall(p, k) ==
    /\ pc[p] = "idle"
    /\ Goto(p, "GetOrNew_GetMutex", [NoFrame EXCEPT !.key = k, !.reg = GetMutexRegistry, !.outer = TRUE,
                                                    !.looked = GetMutexRegistry])
    /\ UNCHANGED <<heap, regs, registry, holds, reentered, got, born, stored, acquired, opt, misused>>

\* .GetMutex(key) of line 120; if some { return maybeMutex }
GetOrNewGetMutex(p) ==
    /\ pc[p] = "GetOrNew_GetMutex"
    /\ GetMutexLoad(p, frame[p].reg, frame[p].key, TRUE)
    /\ UNCHANGED <<heap, regs, registry, holds, reentered, born, stored, acquired, opt, misused>>

\* mutant: the new lock is registered through a registry older than the one
\* in use when there is one
GetOrNewNewStale(p) ==
    /\ pc[p] = "GetOrNew_New"
    /\ Alloc(NewMutex(frame[p].key))
    /\ Goto(p, "GetOrNew_Register", [frame[p] EXCEPT !.mutex = Len(heap) + 1, !.reg = 1])
    /\ UNCHANGED <<regs, registry, holds, reentered, got, stored, acquired, opt, misused>>

\* mutex := NewCancellableMutex(key); GetMutexRegistry() of line 126
GetOrNewNew(p) ==
    /\ pc[p] = "GetOrNew_New"
    /\ Alloc(NewMutex(frame[p].key))
    /\ Goto(p, "GetOrNew_Register", [frame[p] EXCEPT !.mutex = Len(heap) + 1, !.reg = GetMutexRegistry])
    /\ UNCHANGED <<regs, registry, holds, reentered, got, stored, acquired, opt, misused>>

\* mutant: the new lock is returned without being registered
GetOrNewRegisterSkipped(p) ==
    /\ pc[p] = "GetOrNew_Register"
    /\ GetOrNewReturn(p, frame[p].key, frame[p].mutex, FALSE)
    /\ UNCHANGED <<heap, regs, registry, holds, reentered, born, stored, acquired, opt, misused>>

\* .Register(mutex) of line 126, its error dropped
GetOrNewRegister(p) ==
    /\ pc[p] = "GetOrNew_Register"
    /\ RegisterHas(p, frame[p].reg, frame[p].mutex, TRUE)
    /\ UNCHANGED <<heap, regs, registry, holds, reentered, born, stored, acquired, opt, misused>>

(* ------------------------- resetRegistry() ---------------------------- *)
\* mutant: the map of the current registry is emptied instead of replaced
ResetRegistryInPlace(p) ==
    /\ pc[p] = "idle"
    /\ regs' = [regs EXCEPT ![registry] = EmptyMap]
    /\ got' = [q \in Procs |-> NoObj]
    /\ Return(p, [NoRet EXCEPT !.op = "reset"])
    /\ UNCHANGED <<heap, registry, holds, reentered, born, stored, acquired, opt, misused>>

\* mutant: the new registry starts with the entries of the one it replaces
ResetRegistryCopy(p) ==
    /\ pc[p] = "idle"
    /\ regs' = Append(regs, regs[registry])
    /\ registry' = Len(regs) + 1
    /\ stored' = Append(stored, EmptyMap)
    /\ got' = [q \in Procs |-> NoObj]
    /\ Return(p, [NoRet EXCEPT !.op = "reset"])
    /\ UNCHANGED <<heap, holds, reentered, born, acquired, opt, misused>>

ResetRegistry(p) ==
    /\ pc[p] = "idle"
    /\ regs' = Append(regs, EmptyMap)
    /\ registry' = Len(regs) + 1
    /\ stored' = Append(stored, EmptyMap)
    /\ got' = [q \in Procs |-> NoObj]
    /\ Return(p, [NoRet EXCEPT !.op = "reset"])
    /\ UNCHANGED <<heap, holds, reentered, born, acquired, opt, misused>>

(* --------------------------- the program ------------------------------ *)
\* the steps of a Lock call in progress
LockSteps(p) ==
    \/ \E reason \in {"Canceled", "DeadlineExceeded"} : CtxFire(p, reason)
    \/ LockSend(p)
    \/ LockSetLocked(p)
    \/ LockCtxDone(p)

\* the steps of an Unlock call in progress
UnlockSteps(p) ==
    \/ UnlockRecv(p)
    \/ UnlockClear(p)

\* the steps of a registry call in progress
RegistrySteps(p) ==
    \/ GetMutexDelete(p)
    \/ RegisterStore(p)
    \/ GetOrNewGetMutex(p)
    \/ GetOrNewNew(p)
    \/ GetOrNewRegister(p)

(* One caller: a program that makes one call at a time.                   *)
Main == CHOOSE p \in Procs : TRUE

\* One caller making Options of values of every type, locks made by
\* NewCancellableMutex among them, and reading them.
OptionNext ==
    \/ Len(heap) < SeqObjs /\ \E k \in Keys : NewCancellableMutex(Main, k)
    \/ \E T \in Types : OptionNone(Main, T)
    \/ \E T \in Types : \E v \in ValuesOf(T) : OptionSome(Main, T, v)
    \/ \E T \in Types : \E v \in ValuesOf(T) : OptionSomeComplete(Main, T, v)
    \/ OptionValue(Main)

SpecOption == Init /\ [][OptionNext]_vars

\* One caller locking and unlocking locks made by NewCancellableMutex.
LockSeqNext ==
    \/ Len(heap) < SeqObjs /\ \E k \in Keys : NewCancellableMutex(Main, k)
    \/ \E o \in Objs, c \in CtxStates : LockCall(Main, o, c)
    \/ LockSteps(Main)
    \/ \E o \in Objs : UnlockCall(Main, o)
    \/ UnlockSteps(Main)

SpecLockSeq == Init /\ [][LockSeqNext]_vars

\* One caller using the registry GetMutexRegistry() returns.
RegSeqNext ==
    \/ Len(heap) < SeqObjs /\ \E k \in Keys : NewCancellableMutex(Main, k)
    \/ \E k \in Keys : HasMutexCall(Main, GetMutexRegistry, k)
    \/ \E k \in Keys : GetMutexCall(Main, GetMutexRegistry, k)
    \/ \E o \in Objs : RegisterCall(Main, GetMutexRegistry, o)
    \/ Len(heap) < SeqObjs /\ \E k \in Keys : GetOrNewCall(Main, k)
    \/ RegistrySteps(Main)
    \/ Len(regs) < MaxRegs /\ ResetRegistry(Main)

SpecRegSeq == Init /\ [][RegSeqNext]_vars

\* One caller that gets its locks from GetOrNewCancellableMutex, uses them,
\* looks keys up and resets the registry.
ResetNext ==
    \/ \E o \in Objs, c \in CtxStates : LockCall(Main, o, c)
    \/ LockSteps(Main)
    \/ \E o \in Objs : UnlockCall(Main, o)
    \/ UnlockSteps(Main)
    \/ \E k \in Keys : HasMutexCall(Main, GetMutexRegistry, k)
    \/ \E k \in Keys : GetMutexCall(Main, GetMutexRegistry, k)
    \/ Len(heap) < SeqObjs /\ \E k \in Keys : GetOrNewCall(Main, k)
    \/ RegistrySteps(Main)
    \/ Len(regs) < MaxRegs /\ ResetRegistry(Main)

SpecReset == Init /\ [][ResetNext]_vars

\* Goroutines that share locks made by NewCancellableMutex; Unlock is called
\* only by a goroutine that holds the lock.
LockNext ==
    \E p \in Procs :
        \/ Len(heap) < LockObjs /\ NewCancellableMutex(p, "a")
        \/ \E o \in Objs, c \in CtxStates : LockCall(p, o, c)
        \/ LockSteps(p)
        \/ \E o \in holds[p] : UnlockCall(p, o)
        \/ UnlockSteps(p)

SpecLock == Init /\ [][LockNext]_vars

\* The same goroutines under the scheduling of the Go runtime: a goroutine
\* whose select can proceed, through the send or through the done context,
\* and stays able to, is run, and so is one that has sent and has only to
\* set the flag (weak fairness).  Nothing makes a goroutine call Lock or
\* Unlock, and nothing makes a context fire.
LockFairness ==
    \A p \in Procs :
        /\ WF_vars(LockCtxDone(p))
        /\ WF_vars(LockSetLocked(p))
        /\ WF_vars(LockSend(p))

\* Goroutines that share one lock, the first one made; Unlock is called only
\* by a goroutine that holds the lock.
LockFairNext ==
    \E p \in Procs :
        \/ heap = <<>> /\ NewCancellableMutex(p, "a")
        \/ \E o \in Objs, c \in CtxStates : LockCall(p, o, c)
        \/ LockSteps(p)
        \/ \E o \in holds[p] : UnlockCall(p, o)
        \/ UnlockSteps(p)

SpecLockFair == Init /\ [][LockFairNext]_vars /\ LockFairness

\* Goroutines that use one lock, any of them calling Unlock, a holder or
\* not, while one of them also calls the other operations of the package.
\* A Lock is called with a context that is never done or, by that one
\* caller, with one that is done already.
AnyNext ==
    \/ heap = <<>> /\ \E k \in {"", "a"} : NewCancellableMutex(Main, k)
    \/ heap = <<>> /\ GetOrNewCall(Main, "a")
    \/ \E o \in Objs : HasMutexCall(Main, GetMutexRegistry, GetKey(o))
    \/ \E o \in Objs : GetMutexCall(Main, GetMutexRegistry, GetKey(o))
    \/ \E o \in Objs : RegisterCall(Main, GetMutexRegistry, o)
    \/ RegistrySteps(Main)
    \/ Len(regs) < MaxRegs /\ ResetRegistry(Main)
    \/ \E o \in Objs : GetKeyCall(Main, o)
    \/ \E o \in Objs : IsLockedCall(Main, o)
    \/ \E p \in Procs :
          \/ \E o \in Objs, c \in (IF p = Main THEN {"Background", "Canceled"} ELSE {"Background"}) :
                LockCall(p, o, c)
          \/ LockSend(p)
          \/ LockSetLocked(p)
          \/ LockCtxDone(p)
          \/ \E o \in Objs : UnlockCall(p, o)
          \/ UnlockSteps(p)

SpecAny == Init /\ [][AnyNext]_vars

\* Goroutines that make locks and register and look them up in the one
\* registry the program starts with.
RegisterNext ==
    \E p \in Procs :
        \/ Len(heap) < KeyObjs /\ \E k \in Keys : NewCancellableMutex(p, k)
        \/ \E o \in Objs : RegisterCall(p, GetMutexRegistry, o)
        \/ RegisterStore(p)
        \/ \E k \in Keys : HasMutexCall(p, GetMutexRegistry, k)
        \/ \E k \in Keys : GetMutexCall(p, GetMutexRegistry, k)
        \/ GetMutexDelete(p)

SpecRegister == Init /\ [][RegisterNext]_vars

\* One goroutine keeps the registry handles GetMutexRegistry() gave it and
\* registers and looks up locks through them, while any goroutine fetches
\* and resets the registry.
HandleNext ==
    \/ Len(heap) < LockObjs /\ \E k \in Keys : NewCancellableMutex(Main, k)
    \/ \E r \in Regs, o \in Objs : RegisterCall(Main, r, o)
    \/ RegisterStore(Main)
    \/ \E r \in Regs, k \in Keys : HasMutexCall(Main, r, k)
    \/ \E r \in Regs, k \in Keys : GetMutexCall(Main, r, k)
    \/ GetMutexDelete(Main)
    \/ \E p \in Procs :
          \/ GetMutexRegistryCall(p)
          \/ Len(regs) < MaxRegs /\ ResetRegistry(p)

SpecHandle == Init /\ [][HandleNext]_vars

\* One caller that makes locks with NewCancellableMutex, registers them,
\* looks keys up and locks and unlocks the locks.
NewNext ==
    \/ Len(heap) < SeqObjs /\ \E k \in Keys : NewCancellableMutex(Main, k)
    \/ \E o \in Objs : RegisterCall(Main, GetMutexRegistry, o)
    \/ RegisterStore(Main)
    \/ \E k \in Keys : HasMutexCall(Main, GetMutexRegistry, k)
    \/ \E k \in Keys : GetMutexCall(Main, GetMutexRegistry, k)
    \/ GetMutexDelete(Main)
    \/ \E o \in Objs, c \in {"Background", "Canceled"} : LockCall(Main, o, c)
    \/ LockSend(Main)
    \/ LockSetLocked(Main)
    \/ LockCtxDone(Main)
    \/ \E o \in Objs : UnlockCall(Main, o)
    \/ UnlockSteps(Main)

SpecNew == Init /\ [][NewNext]_vars

\* Goroutines that each get a lock from GetOrNewCancellableMutex and lock and
\* unlock the lock they got; the registry is never reset.
KeyNext ==
    \E p \in Procs :
        \/ Len(heap) + Reserved < KeyObjs /\ \E k \in Keys : GetOrNewCall(p, k)
        \/ RegistrySteps(p)
        \/ got[p] # NoObj /\ \E c \in CtxStates : LockCall(p, got[p], c)
        \/ LockSteps(p)
        \/ \E o \in holds[p] : UnlockCall(p, o)
        \/ UnlockSteps(p)

SpecKey == Init /\ [][KeyNext]_vars

\* Goroutines that get locks from GetOrNewCancellableMutex, while one of
\* them also makes and registers locks itself, looks keys up and resets the
\* registry.
EntryNext ==
    \/ Len(heap) + Reserved < LockObjs /\ \E k \in {"", "a"} : NewCancellableMutex(Main, k)
    \/ \E o \in Objs : RegisterCall(Main, GetMutexRegistry, o)
    \/ \E k \in {"", "a"} : GetMutexCall(Main, GetMutexRegistry, k)
    \/ Len(regs) < MaxRegs /\ ResetRegistry(Main)
    \/ \E p \in Procs :
          \/ \E k \in {"", "a"} : CanGetOrNew(k, LockObjs) /\ GetOrNewCall(p, k)
          \/ RegistrySteps(p)

SpecEntry == Init /\ [][EntryNext]_vars

\* Goroutines that get locks for non-empty keys from
\* GetOrNewCancellableMutex, while one of them also makes and registers locks
\* itself and looks the keys up; the registry is never reset.
ConvergeNext ==
    \/ Len(heap) + Reserved < KeyObjs /\ \E k \in Keys \ {""} : NewCancellableMutex(Main, k)
    \/ \E o \in Objs : RegisterCall(Main, GetMutexRegistry, o)
    \/ \E k \in Keys \ {""} : GetMutexCall(Main, GetMutexRegistry, k)
    \/ \E p \in Procs :
          \/ \E k \in Keys \ {""} : CanGetOrNew(k, KeyObjs) /\ GetOrNewCall(p, k)
          \/ GetOrNewGetMutex(p)
          \/ GetOrNewNew(p)
          \/ GetOrNewRegister(p)
          \/ RegisterStore(p)

SpecConverge == Init /\ [][ConvergeNext]_vars

(***************************************************************************)
(*                              The claims                                 *)
(***************************************************************************)
\* the goroutines between a Lock of o that returned nil and their Unlock call
Holders(o) == {p \in Procs : o \in holds[p]}

\* C1 (SpecLock): on every lock, at most one goroutine at a time is between a
\* Lock that returned nil and its call of Unlock, and no Lock returns nil to a
\* goroutine that already holds the lock (no re-entrancy), whatever the
\* interleaving of Lock and holder-only Unlock calls.
C1_MutualExclusion ==
    \A o \in Objs : Cardinality(Holders(o)) <= 1 /\ o \notin reentered

\* C1 witness: a goroutine holds the lock, its own second Lock has just
\* returned the context's error, and another goroutine is blocked in Lock.
C1_Witness ==
    \E o \in Objs, p \in Procs, q \in Procs :
        /\ p # q
        /\ o \in holds[p]
        /\ ret.op = "Lock" /\ ret.proc = p /\ ret.mutex = o /\ ret.err # "nil"
        /\ pc[q] = "Lock_select" /\ frame[q].mutex = o


\* C2 (SpecKey): with no reset, goroutines that got their locks from
\* GetOrNewCancellableMutex(k) with the same key k exclude each other: no two
\* of them are at the same time between a Lock that returned nil and its
\* Unlock.
C2_ExclusivePerKey ==
    \A p \in Procs, q \in Procs :
        \A o1 \in holds[p], o2 \in holds[q] :
            (p # q /\ Len(regs) = 1) => heap[o1].key # heap[o2].key


\* C3 as claimed (SpecRegSeq): for every key, the empty key included, a
\* GetOrNewCancellableMutex(k) that follows a GetOrNewCancellableMutex(k) with
\* no reset in between returns the lock the earlier call returned.
C3_SameLockEveryKey ==
    [][(ret'.op = "GetOrNew" /\ got[Main] # NoObj /\ heap[got[Main]].key = ret'.key)
          => ret'.value = got[Main]]_vars

\* C3 as amended (SpecRegSeq): a GetOrNewCancellableMutex(k) that follows a
\* GetOrNewCancellableMutex(k) with no reset in between returns the same lock
\* when k is not empty and another lock when k is empty; either way the lock
\* has key k and the call hands no error to its caller.
C3_SameLockNonEmptyKey ==
    [][(ret'.op = "GetOrNew" /\ got[Main] # NoObj /\ heap[got[Main]].key = ret'.key)
          => /\ (ret'.key # "") = (ret'.value = got[Main])
             /\ heap'[ret'.value].key = ret'.key
             /\ ret'.err = "nil"]_vars

\* C3 witness: a second GetOrNewCancellableMutex("a") has returned the lock
\* the lookup found, the one the first call created and registered.
C3_Witness ==
    /\ ret.op = "GetOrNew" /\ ret.key = "a" /\ ret.some
    /\ ret.value = got[Main]
    /\ stored[registry]["a"] = ret.value


\* C4 (SpecRegSeq): a Register(lock) that finds an entry under lock.GetKey()
\* returns AlreadyRegisteredError and leaves the registry as it was; one that
\* finds none returns nil and has stored the lock under its key, every other
\* entry unchanged.  So a second Register of a key fails after a first that
\* succeeded.
C4_Register ==
    [][ret'.op = "Register"
          => /\ ret'.key = heap[ret'.mutex].key
             /\ IF regs[ret'.reg][ret'.key] # NoObj
                THEN ret'.err = "AlreadyRegistered" /\ regs' = regs
                ELSE /\ ret'.err = "nil"
                     /\ regs' = [regs EXCEPT ![ret'.reg][ret'.key] = ret'.mutex]]_vars

\* C4 witness: the lock stored by an earlier Register is registered again and
\* the call has returned AlreadyRegisteredError.
C4_Witness ==
    /\ ret.op = "Register" /\ ret.err = "AlreadyRegistered"
    /\ regs[ret.reg][ret.key] = ret.mutex
    /\ stored[ret.reg][ret.key] = ret.mutex


\* C5 (SpecRegSeq): in a registry in which only locks with non-empty keys
\* were registered since it was fresh, HasMutex(k) returns true exactly for
\* the keys registered, GetMutex(k) is present exactly for them and then
\* holds the registered lock, whose GetKey() is k; a GetMutex that returns
\* the empty Option leaves no entry under k.
C5_Lookup ==
    LET r == ret.reg
        k == ret.key
    IN  (ret.op \in {"HasMutex", "GetMutex"} /\ stored[r][""] = NoObj)
           => /\ ret.some = (stored[r][k] # NoObj)
              /\ ret.op = "GetMutex" =>
                     /\ ret.value = stored[r][k]
                     /\ ret.some => heap[ret.value].key = k
                     /\ ~ret.some => regs[r][k] = NoObj

\* C5 witness: locks were registered under "a" and under "b" and under no
\* other key, and GetMutex("b") has returned the lock registered under "b".
C5_Witness ==
    /\ ret.op = "GetMutex" /\ ret.key = "b" /\ ret.some
    /\ stored[ret.reg]["a"] # NoObj
    /\ stored[ret.reg]["b"] = ret.value
    /\ stored[ret.reg][""] = NoObj


\* C6 (SpecLockSeq): for one caller that makes one call at a time, in every
\* round: a Lock whose select runs on a free lock with a context that is not
\* done takes the slot and returns nil; a Lock on the held lock leaves its
\* select only by returning the error of its context, DeadlineExceeded for a
\* deadline, without taking the slot; and when Unlock returns the lock is
\* free again, with IsLocked() false.
C6_LockUnlockCycle ==
    [][LET m == frame[Main].mutex
           c == frame[Main].ctx
       IN  /\ (pc[Main] = "Lock_select" /\ heap[m].lockChannel < ChanCap /\ ~CtxDone(c)
                 /\ pc'[Main] # "Lock_select")
              => (pc'[Main] = "Lock_locked" /\ heap'[m].lockChannel = ChanCap)
           /\ (pc[Main] = "Lock_locked" /\ pc'[Main] # "Lock_locked")
              => (ret'.op = "Lock" /\ ret'.mutex = m /\ ret'.err = "nil" /\ m \in holds'[Main])
           /\ (pc[Main] = "Lock_select" /\ heap[m].lockChannel = ChanCap /\ pc'[Main] # "Lock_select")
              => /\ ret'.op = "Lock" /\ ret'.mutex = m /\ ret'.err = c
                 /\ c \in {"Canceled", "DeadlineExceeded"}
                 /\ heap' = heap /\ holds' = holds
           /\ ret'.op = "Unlock"
              => (heap'[ret'.mutex].lockChannel = 0 /\ ~heap'[ret'.mutex].locked)]_vars

\* C6 witness: the caller holds the lock and its second Lock, made with a
\* deadline, has returned DeadlineExceeded.
C6_Witness ==
    /\ ret.op = "Lock" /\ ret.err = "DeadlineExceeded" /\ ret.proc = Main
    /\ ret.mutex \in holds[Main]
    /\ heap[ret.mutex].lockChannel = ChanCap /\ heap[ret.mutex].locked


\* C7 (SpecLock): a Lock whose select runs on a held lock (the channel is
\* full) with a context that is done returns that context's reason, Canceled
\* for a cancellation and DeadlineExceeded for a deadline, and changes
\* nothing of the lock: the slot stays taken, the locked flag and the holders
\* stay as they were.
C7_FiredSignalOnHeldLock ==
    [][\A p \in Procs :
          LET m == frame[p].mutex
              c == frame[p].ctx
          IN  (pc[p] = "Lock_select" /\ heap[m].lockChannel = ChanCap
                 /\ c \in {"Canceled", "DeadlineExceeded"} /\ pc'[p] # pc[p])
              => /\ ret'.op = "Lock" /\ ret'.proc = p /\ ret'.mutex = m
                 /\ ret'.err = c
                 /\ heap' = heap /\ holds' = holds]_vars

\* C7 witness: a Lock made with a cancelled context has returned Canceled
\* while another goroutine holds the lock, slot taken and locked flag true.
C7_Witness ==
    /\ ret.op = "Lock" /\ ret.err = "Canceled"
    /\ heap[ret.mutex].lockChannel = ChanCap /\ heap[ret.mutex].locked
    /\ \E q \in Procs : q # ret.proc /\ ret.mutex \in holds[q]

\* C8 (SpecLock): every Lock call that returns either returns nil after its
\* own send took the slot, and then holds the lock, or returns the error of
\* its done context without having sent; never an error with the slot taken
\* by the call, never nil without it.
C8_LockOutcome ==
    ret.op = "Lock"
       => \/ ret.err = "nil" /\ ret.claimed /\ ret.mutex \in holds[ret.proc]
          \/ ret.err \in {"Canceled", "DeadlineExceeded"} /\ ret.err = ret.ctx /\ ~ret.claimed

\* C8 witness: a Lock has returned its context's error although the slot was
\* free: the send and the done context were both ready in its select.
C8_Witness ==
    /\ ret.op = "Lock" /\ ret.err \in {"Canceled", "DeadlineExceeded"}
    /\ heap[ret.mutex].lockChannel < ChanCap
    /\ \A p \in Procs : pc[p] = "idle"


\* C9 (SpecReset): resetRegistry() changes no lock and leaves the registry
\* GetMutexRegistry() returns empty; HasMutex(k) and GetMutex(k) on it are
\* false and empty for every key registered only before the reset; and a
\* lock created before the reset keeps its key and is locked and unlocked as
\* before: a Lock on it when free, with a context not done, takes the slot
\* and returns nil, and when Unlock returns it is free again.
C9_Reset ==
    [][LET m == frame[Main].mutex
           c == frame[Main].ctx
       IN  /\ ret'.op = "reset"
              => /\ heap' = heap /\ holds' = holds
                 /\ \A k \in Keys : regs'[registry'][k] = NoObj
           /\ (ret'.op \in {"HasMutex", "GetMutex"} /\ ret'.reg = registry'
                 /\ stored'[registry'][ret'.key] = NoObj)
              => (~ret'.some /\ ret'.value = NoObj)
           /\ \A o \in Objs : heap'[o].key = heap[o].key
           /\ (pc[Main] = "Lock_select" /\ born[m] < Len(regs) /\ heap[m].lockChannel < ChanCap
                 /\ c \in {"Background", "Pending"} /\ pc'[Main] # "Lock_select")
              => (pc'[Main] = "Lock_locked" /\ heap'[m].lockChannel = ChanCap)
           /\ (pc[Main] = "Lock_locked" /\ born[m] < Len(regs) /\ pc'[Main] # "Lock_locked")
              => (ret'.op = "Lock" /\ ret'.mutex = m /\ ret'.err = "nil" /\ heap'[m].locked)
           /\ (ret'.op = "Unlock" /\ born[ret'.mutex] < Len(regs))
              => (heap'[ret'.mutex].lockChannel = 0 /\ ~heap'[ret'.mutex].locked)]_vars

\* C9 witness: a lock registered under "a" before a reset is no longer in
\* the current registry, and a Lock on it made after the reset has returned
\* nil.
C9_Witness ==
    /\ Len(regs) > 1
    /\ ret.op = "Lock" /\ ret.err = "nil"
    /\ born[ret.mutex] < Len(regs)
    /\ heap[ret.mutex].key = "a"
    /\ stored[1]["a"] = ret.mutex
    /\ regs[registry]["a"] = NoObj

\* C10 (SpecRegSeq): GetMutex returns no incomplete lock: a lock it returns
\* has a non-empty key.  When the entry under the key looked up is a lock
\* with key "", GetMutex returns the empty Option and has removed the entry;
\* after any empty result no entry is left under the key, and a Register of
\* that key made next does not fail.
C10_Eviction ==
    [][/\ ret'.op = "GetMutex"
          => /\ ret'.some => (ret'.value # NoObj /\ heap'[ret'.value].key # "")
             /\ ~ret'.some => (ret'.value = NoObj /\ regs'[ret'.reg][ret'.key] = NoObj)
             /\ (regs[ret'.reg][ret'.key] # NoObj /\ ret'.key = "") => ~ret'.some
       /\ (pc[Main] = "GetMutex_delete" /\ ~frame[Main].outer)
          => (ret'.op = "GetMutex" /\ ~ret'.some /\ ret'.key = frame[Main].key)
       /\ (ret.op = "GetMutex" /\ ~ret.some)
          => ~(ret'.op = "Register" /\ ret'.reg = ret.reg /\ ret'.key = ret.key)]_vars

\* C10 witness: a lock with key "" was registered and then looked up;
\* GetMutex("") has returned the empty Option after deleting the entry.
C10_Witness ==
    /\ ret.op = "GetMutex" /\ ret.key = "" /\ ~ret.some /\ ret.claimed
    /\ stored[ret.reg][""] # NoObj
    /\ regs[ret.reg][""] = NoObj

\* C11 as claimed (SpecOption): SomeComplete(v) fails exactly when v
\* implements the completeness contract (by its static type, the interface
\* complete.Complete, or by its dynamic type) and is nil (the nil interface
\* or a nil pointer) or its Complete() returns false; a failure returns the
\* empty Option, Value() = (zero value, false), and an IncompleteTypeError
\* carrying v; every other call returns nil and an Option with
\* Value() = (v, true).
C11_SomeCompleteFailsOnNil ==
    ret.op = "SomeComplete"
       => LET v == ret.arg
              T == ret.type
              implements == T = "Complete" \/ v.dyn \in {"MockComplete", "*cancellableMutex"}
              isNil == v.dyn = "nil" \/ (v.dyn = "*cancellableMutex" /\ v.n = NoObj)
              incomplete == IF v.dyn = "MockComplete" THEN ~v.isComplete
                            ELSE heap[v.n].key = ""
          IN  IF implements /\ (isNil \/ incomplete)
              THEN /\ ret.err = "IncompleteTypeError" /\ ret.incomplete = v
                   /\ opt.arg = v /\ Value(opt.option) = <<Zero(T), FALSE>>
              ELSE /\ ret.err = "nil"
                   /\ opt.arg = v /\ Value(opt.option) = <<v, TRUE>>


\* C12 (SpecOption): for every value v of every type T, T's zero value
\* included, Value() of the Option Some(v) made returns (v, true); Value() of
\* the Option None() made returns (T's zero value, false); Value() changes
\* neither the Option nor anything else, and a Value() that follows a Value()
\* returns the same pair.
C12_RoundTrip ==
    [][ret'.op = "Value"
          => /\ opt' = opt /\ heap' = heap
             /\ opt.op = "Some" => (ret'.val = opt.arg /\ ret'.some)
             /\ opt.op = "None" => (ret'.val = Zero(opt.type) /\ ~ret'.some)
             /\ ret.op = "Value" => (ret'.val = ret.val /\ ret'.some = ret.some)]_vars

\* C12 witness: Some(0) was made of the zero value of int, and Value() has
\* returned (0, true).
C12_Witness ==
    /\ ret.op = "Value" /\ ret.some /\ ret.val = Int(0)
    /\ opt.op = "Some" /\ opt.type = "int" /\ opt.arg = Int(0)


\* C14 (SpecOption): the lock NewCancellableMutex(k) returns has key k, and
\* SomeComplete applied to a lock made by it returns IncompleteTypeError and
\* the empty Option when the lock's key is "", and nil and the Option holding
\* that lock when it is not.
C14_LockComplete ==
    [][/\ ret'.op = "New" => heap'[ret'.value].key = ret'.key
       /\ (ret'.op = "SomeComplete" /\ Ref(ret'.arg) # NoObj)
          => IF heap[Ref(ret'.arg)].key = ""
             THEN /\ ret'.err = "IncompleteTypeError"
                  /\ Value(opt'.option) = <<Nil, FALSE>>
             ELSE /\ ret'.err = "nil"
                  /\ Value(opt'.option) = <<ret'.arg, TRUE>>
                  /\ Ref(Value(opt'.option)[1]) = Ref(ret'.arg)]_vars

\* C14 witness: SomeComplete of a lock made by NewCancellableMutex("") has
\* returned IncompleteTypeError, while a lock with key "a" exists as well.
C14_Witness ==
    /\ ret.op = "SomeComplete" /\ ret.err = "IncompleteTypeError"
    /\ Ref(ret.arg) # NoObj /\ heap[Ref(ret.arg)].key = ""
    /\ \E o \in Objs : heap[o].key = "a"


\* C13 (SpecLockSeq): a lock whose slot no Lock has taken is free with
\* IsLocked() false; an Unlock of it returns at once, without waiting at the
\* channel, and changes nothing of any lock; and a Lock of it with a context
\* that is not done takes the slot and returns nil, whether or not Unlock was
\* called on it before.
C13_UnlockNeverAcquired ==
    [][LET m == frame[Main].mutex
           c == frame[Main].ctx
       IN  /\ \A o \in Objs \ acquired : heap[o].lockChannel = 0 /\ ~IsLocked(o)
           /\ (pc[Main] = "idle" /\ pc'[Main] = "Unlock_recv")
              => frame'[Main].mutex \in acquired
           /\ (ret'.op = "Unlock" /\ ret'.mutex \notin acquired)
              => (pc[Main] = "idle" /\ heap' = heap /\ ~heap'[ret'.mutex].locked)
           /\ (pc[Main] = "Lock_select" /\ m \notin acquired /\ c \in {"Background", "Pending"}
                 /\ pc'[Main] # "Lock_select")
              => (pc'[Main] = "Lock_locked" /\ heap'[m].lockChannel = ChanCap)
           /\ (pc[Main] = "Lock_locked" /\ pc'[Main] # "Lock_locked")
              => (ret'.op = "Lock" /\ ret'.mutex = m /\ ret'.err = "nil")]_vars

\* C13 witness: Unlock has returned on a lock that no Lock has taken so far;
\* the lock is free, with IsLocked() false.
C13_Witness ==
    /\ ret.op = "Unlock" /\ ret.mutex \in Objs \ acquired
    /\ heap[ret.mutex].lockChannel = 0 /\ ~IsLocked(ret.mutex)
    /\ pc[Main] = "idle"


\* the goroutines that have taken the slot of o in a Lock that has not
\* returned yet, or are in an Unlock of o that has not returned yet
InLockOrUnlock(o) ==
    {p \in Procs : pc[p] \in {"Lock_locked", "Unlock_recv", "Unlock_clear"} /\ frame[p].mutex = o}

\* C15 (SpecLock): with Unlock called only by the goroutine whose Lock
\* succeeded last, the Unlock of a holder frees the slot: in every state in
\* which no goroutine is between a Lock that took the slot and the return of
\* its Unlock, the slot is free and IsLocked() is false, so that a Lock with a
\* context that is not done can take it.
C15_ReleaseFreesSlot ==
    \A o \in Objs :
        (Holders(o) = {} /\ InLockOrUnlock(o) = {})
           => (heap[o].lockChannel = 0 /\ ~IsLocked(o) /\ CanSend(o))


\* C16 (SpecLockFair, one lock): a Lock call leaves its select in exactly one of two
\* ways: the slot has room and the call itself takes it, or its context is
\* done and it returns the context's error with the lock untouched; with the
\* slot taken and the context not done it stays in the select.  Under fair
\* scheduling a Lock call whose context is done returns, and when the slot is
\* free while a caller whose context is not done waits in Lock, a Lock of
\* that lock returns nil, unless the waiting caller's context fires first.
C16_BlockedLock ==
    /\ [][\A p \in Procs :
             LET m == frame[p].mutex
                 c == frame[p].ctx
             IN  (pc[p] = "Lock_select" /\ pc'[p] # "Lock_select")
                 => \/ /\ pc'[p] = "Lock_locked"
                       /\ heap[m].lockChannel < ChanCap
                       /\ heap'[m].lockChannel = heap[m].lockChannel + 1
                       /\ ret'.op # "Lock"
                    \/ /\ pc'[p] = "idle"
                       /\ c \in {"Canceled", "DeadlineExceeded"}
                       /\ ret'.op = "Lock" /\ ret'.proc = p /\ ret'.err = c
                       /\ heap' = heap]_vars
    /\ \A p \in Procs :
          (pc[p] = "Lock_select" /\ frame[p].ctx \in {"Canceled", "DeadlineExceeded"})
             ~> (pc[p] = "idle")
    /\ \A p \in Procs :
          (pc[p] = "Lock_select" /\ frame[p].ctx \in {"Background", "Pending"}
              /\ heap[frame[p].mutex].lockChannel < ChanCap)
             ~> \/ ret.op = "Lock" /\ ret.mutex \in Objs /\ ret.err = "nil"
                \/ pc[p] = "Lock_select" /\ frame[p].ctx \in {"Canceled", "DeadlineExceeded"}

\* C16 witness: a Lock that waited while another goroutine held the lock has
\* returned nil: the holder's Unlock has freed the slot and has not returned
\* yet.
C16_Witness ==
    /\ ret.op = "Lock" /\ ret.err = "nil" /\ ret.ctx = "Background"
    /\ \E q \in Procs : /\ q # ret.proc
                        /\ pc[q] = "Unlock_clear" /\ frame[q].mutex = ret.mutex


\* a call of p other than Lock is in progress
InOtherCall(p) == pc[p] \notin {"idle", "Lock_select", "Lock_locked", "panicked"}

\* the call of p in progress can take its next step now
CanStep(p) == ENABLED (UnlockSteps(p) \/ RegistrySteps(p))

\* C17 as claimed (SpecAny): in every reachable state, whoever called the
\* operations, a call of Unlock, HasMutex, GetMutex, Register,
\* GetOrNewCancellableMutex, NewCancellableMutex, GetKey, IsLocked or
\* resetRegistry that is in progress can take its next step: it waits for no
\* other goroutine.
C17_OnlyLockBlocks ==
    \A p \in Procs : InOtherCall(p) => CanStep(p)

\* C17 as amended (SpecAny): the same, for every call but an Unlock of a
\* lock on which Unlock was called by a goroutine that did not hold it.
C17_OnlyLockBlocksHolderUnlock ==
    \A p \in Procs :
        (InOtherCall(p) /\ ~(pc[p] = "Unlock_recv" /\ frame[p].mutex \in misused))
           => CanStep(p)

\* C17 witness: the holder of the lock is at the receive of its Unlock while
\* another goroutine waits in Lock for the slot; no goroutine has called
\* Unlock on a lock it did not hold.
C17_Witness ==
    \E p \in Procs, q \in Procs :
        /\ p # q
        /\ pc[p] = "Unlock_recv" /\ misused = {}
        /\ pc[q] = "Lock_select" /\ frame[q].mutex = frame[p].mutex


\* C18 as claimed (SpecRegister): in one registry, once a lock was stored
\* under a key no other lock is ever stored under that key, and every
\* Register of another lock with that key that returns afterwards returns
\* AlreadyRegisteredError, whatever the interleaving of the Register calls.
C18_OneLockPerKey ==
    [][\A r \in Regs, k \in Keys :
          stored[r][k] # NoObj
             => /\ stored'[r][k] = stored[r][k]
                /\ (ret'.op = "Register" /\ ret'.reg = r /\ ret'.key = k
                       /\ ret'.mutex # stored[r][k])
                   => ret'.err = "AlreadyRegistered"]_vars

\* C18 as amended (SpecRegister): a Register whose HasMutex check runs while
\* a lock is in the registry under the key returns AlreadyRegisteredError and
\* leaves the registry as it is, and one whose check finds no entry goes on
\* to store; an entry is replaced only by the Store of a Register that made
\* its check before an entry was there (the last Store wins), and removed
\* only by a GetMutex that finds it with the key "".
C18_OneLockPerKeySequential ==
    [][/\ \A p \in Procs :
             (pc[p] = "idle" /\ pc'[p] = "Register_store")
                => regs[frame'[p].reg][frame'[p].key] = NoObj
       /\ (ret'.op = "Register" /\ pc[ret'.proc] = "idle")
             => /\ regs[ret'.reg][ret'.key] # NoObj
                /\ ret'.err = "AlreadyRegistered"
                /\ regs' = regs
       /\ \A r \in Regs, k \in Keys :
             (regs[r][k] # NoObj /\ regs'[r][k] # regs[r][k])
                => \/ regs'[r][k] = NoObj /\ k = "" /\ ret'.op # "Register"
                   \/ /\ ret'.op = "Register" /\ ret'.err = "nil"
                      /\ pc[ret'.proc] = "Register_store"
                      /\ regs'[r][k] = ret'.mutex]_vars

\* C18 witness: a Register has stored its lock and returned nil while the
\* Register of another lock with the same key, past its check, is about to
\* store.
C18_Witness ==
    \E q \in Procs :
        /\ ret.op = "Register" /\ ret.err = "nil" /\ ret.proc # q
        /\ regs[ret.reg][ret.key] = ret.mutex
        /\ pc[q] = "Register_store" /\ frame[q].reg = ret.reg
        /\ frame[q].key = ret.key /\ frame[q].mutex # ret.mutex


\* C19 (SpecHandle): resetRegistry() replaces the registry in one step by a
\* new, empty one and changes no registry that existed, so that a handle got
\* before the reset keeps all its entries; GetMutexRegistry() returns the
\* registry current at that moment, whole; no other operation changes which
\* registry is current; and a Register or GetMutex made through one handle
\* changes the entries of that registry only and of no other, so that what
\* is registered through an old handle is not seen through the current
\* registry, nor the other way round; HasMutex answers from its own handle.
C19_AtomicReset ==
    [][/\ registry' \in 1..Len(regs')
       /\ ret'.op = "reset"
             => /\ registry' \notin Regs
                /\ regs'[registry'] = EmptyMap
                /\ \A r \in Regs : regs'[r] = regs[r]
       /\ ret'.op # "reset" => (registry' = registry /\ Len(regs') = Len(regs))
       /\ ret'.op = "GetMutexRegistry" => (ret'.reg = registry /\ regs' = regs)
       /\ \A r \in Regs :
             regs'[r] # regs[r]
                => /\ ret'.op \in {"Register", "GetMutex"} /\ ret'.reg = r
                   /\ \A r2 \in Regs \ {r} : regs'[r2] = regs[r2]
       /\ ret'.op = "HasMutex" => ret'.some = (regs[ret'.reg][ret'.key] # NoObj)]_vars

\* C19 witness: after a reset a lock was registered through the handle of
\* the registry replaced; Register has returned nil, the old registry holds
\* the lock and the current registry has no entry under its key.
C19_Witness ==
    /\ ret.op = "Register" /\ ret.err = "nil"
    /\ ret.reg # registry
    /\ regs[ret.reg][ret.key] = ret.mutex
    /\ regs[registry][ret.key] = NoObj


\* what GetMutex(k) on registry r returns when called now
GetMutexResult(r, k) ==
    IF MapLoad(r, k)[2] /\ SomeComplete("CancellableMutex", Ptr(MapLoad(r, k)[1]))[2] = "nil"
    THEN SomeComplete("CancellableMutex", Ptr(MapLoad(r, k)[1]))[1]
    ELSE None("CancellableMutex")

\* C20 (SpecNew): NewCancellableMutex(k) returns, for every key k, "" among
\* them, a lock that did not exist before, with GetKey() = k, IsLocked()
\* false and the slot free; it changes no other lock and no registry, so that
\* HasMutex and GetMutex answer for every key as before the call; and a Lock
\* of a lock not locked since it was made, with a context that is not done,
\* takes the slot and returns nil.
C20_NewLock ==
    [][LET m == frame[Main].mutex
           c == frame[Main].ctx
           o == ret'.value
       IN  /\ ret'.op = "New"
              => /\ o \notin Objs /\ o \in 1..Len(heap')
                 /\ \A o2 \in Objs : heap'[o2] = heap[o2]
                 /\ heap'[o].key = ret'.key /\ ~heap'[o].locked
                 /\ heap'[o].lockChannel = 0 /\ heap'[o].lockChannel < ChanCap
                 /\ regs' = regs /\ registry' = registry
                 /\ \A k \in Keys :
                       /\ HasMutex(registry, k)' = HasMutex(registry, k)
                       /\ GetMutexResult(registry, k)' = GetMutexResult(registry, k)
           /\ (pc[Main] = "Lock_select" /\ m \notin acquired /\ c \in {"Background", "Pending"}
                 /\ pc'[Main] # "Lock_select")
              => (pc'[Main] = "Lock_locked" /\ heap'[m].lockChannel = ChanCap)
           /\ (pc[Main] = "Lock_locked" /\ pc'[Main] # "Lock_locked")
              => (ret'.op = "Lock" /\ ret'.mutex = m /\ ret'.err = "nil")]_vars

\* C20 witness: NewCancellableMutex("a") has returned a new lock while
\* another lock is registered under "a"; the registry still holds that one.
C20_Witness ==
    /\ ret.op = "New" /\ ret.key = "a"
    /\ regs[registry]["a"] \in Objs \ {ret.value}
    /\ heap[ret.value].key = "a" /\ ~IsLocked(ret.value) /\ CanSend(ret.value)


\* the goroutines in a Lock or Unlock call on o that has not returned yet
InLockOrUnlockCall(o) ==
    {p \in Procs : /\ pc[p] \in {"Lock_select", "Lock_locked", "Unlock_recv", "Unlock_clear"}
                   /\ frame[p].mutex = o}

\* C21 (SpecLock): with Unlock called only by the goroutine that holds the
\* lock, in every state in which no Lock and no Unlock call on a lock is in
\* progress, IsLocked() is true exactly when the slot of the lock is taken.
C21_FlagAgreesWithSlot ==
    \A o \in Objs :
        InLockOrUnlockCall(o) = {} => (IsLocked(o) = ~CanSend(o))


\* C22 (SpecEntry): in every registry, the one in use and the ones replaced,
\* an entry stored under key k holds a lock whose GetKey() is k; a GetMutex(k)
\* that returns a lock returns one with key k, and k is not ""; and
\* GetOrNewCancellableMutex(k) returns a lock with GetKey() = k, for every
\* key, whatever the interleaving with Register, GetMutex and resetRegistry.
C22_EntryKey ==
    /\ \A r \in Regs, k \in Keys : regs[r][k] # NoObj => (regs[r][k] \in Objs /\ GetKey(regs[r][k]) = k)
    /\ (ret.op = "GetMutex" /\ ret.some)
          => (ret.value \in Objs /\ GetKey(ret.value) = ret.key /\ ret.key # "")
    /\ ret.op = "GetOrNew" => (ret.value \in Objs /\ GetKey(ret.value) = ret.key)


\* C22 witness: GetOrNewCancellableMutex("a") has returned the lock its
\* lookup found in the registry in use, stored there under "a", while a
\* registry replaced by a reset still holds an entry.
C22_Witness ==
    /\ ret.op = "GetOrNew" /\ ret.some /\ ret.key = "a"
    /\ regs[registry]["a"] = ret.value
    /\ \E r \in Regs \ {registry}, k \in Keys : regs[r][k] # NoObj


\* the goroutines in a GetOrNewCancellableMutex call that has fetched the
\* registry for its Register
Registering == {p \in Procs : pc[p] \in {"GetOrNew_Register", "Register_store"} /\ frame[p].outer}

\* C24 as claimed (SpecEntry): the registry in which a
\* GetOrNewCancellableMutex(k) call registers its new lock is the one in which
\* it looked k up, also when resetRegistry runs during the call.
C24_OneSnapshot ==
    \A p \in Registering : frame[p].reg = frame[p].looked

\* C24 as amended (SpecEntry): GetOrNewCancellableMutex(k) fetches the
\* registry in use twice, for its lookup and, after a lookup that found
\* nothing, for its Register.  Each fetch gives the registry in use at that
\* moment, so the registry of the Register is the registry of the lookup or one
\* that replaced it since; it is the registry of the lookup when no reset ran
\* between the two fetches.  The Register checks HasMutex(k) in the registry
\* it stores in, stores only when it found no entry there, and the store
\* changes only the entry for k of that registry.
C24_TwoFetches ==
    [][\A p \in Procs :
          /\ (pc[p] = "idle" /\ pc'[p] = "GetOrNew_GetMutex")
                => (frame'[p].reg = registry /\ frame'[p].looked = registry)
          /\ (pc[p] = "GetOrNew_GetMutex" /\ pc'[p] = "idle")
                => (ret'.op = "GetOrNew" /\ ret'.some /\ ret'.reg = frame[p].looked
                    /\ ret'.value = regs[frame[p].looked][frame[p].key])
          /\ (pc[p] = "GetOrNew_New" /\ pc'[p] = "GetOrNew_Register")
                => /\ frame'[p].reg = registry
                   /\ frame'[p].looked = frame[p].looked
                   /\ frame'[p].looked <= frame'[p].reg
                   /\ (Len(regs) = frame[p].looked) => (frame'[p].reg = frame'[p].looked)
          /\ (pc[p] = "GetOrNew_Register" /\ pc'[p] = "Register_store")
                => /\ ~HasMutex(frame[p].reg, frame[p].key)
                   /\ frame'[p].reg = frame[p].reg /\ frame'[p].looked = frame[p].looked
          /\ (pc[p] = "GetOrNew_Register" /\ pc'[p] = "idle")
                => (HasMutex(frame[p].reg, frame[p].key) /\ regs' = regs)
          /\ (pc[p] = "Register_store" /\ frame[p].outer /\ pc'[p] = "idle")
                => /\ regs' = [regs EXCEPT ![frame[p].reg][frame[p].key] = frame[p].mutex]
                   /\ ret'.op = "GetOrNew" /\ ret'.value = frame[p].mutex
                   /\ ret'.reg = frame[p].reg /\ ret'.looked = frame[p].looked
                   /\ ret'.looked <= ret'.reg]_vars

\* C24 witness: a GetOrNewCancellableMutex("a") call has returned the lock it
\* made and stored in the registry in use, after looking "a" up in the
\* registry that a reset replaced during the call.
C24_Witness ==
    /\ ret.op = "GetOrNew" /\ ~ret.some /\ ret.key = "a"
    /\ ret.looked < ret.reg /\ ret.reg = registry
    /\ regs[ret.reg]["a"] = ret.value /\ regs[ret.looked]["a"] = NoObj


\* the goroutines in a GetOrNewCancellableMutex(k) call whose lookup found
\* nothing, or in a Register of a lock with key k that found no entry, that
\* have not returned yet
Stragglers(k) ==
    {p \in Procs : /\ pc[p] \in {"GetOrNew_New", "GetOrNew_Register", "Register_store"}
                   /\ frame[p].key = k}

\* C23 (SpecConverge): for a non-empty key k and no reset, a
\* GetOrNewCancellableMutex(k) that returns leaves a lock stored under k; and
\* from a state in which a lock is stored under k and every
\* GetOrNewCancellableMutex(k) and Register call that found no entry for k has
\* returned, the stored lock stays the same, no call gets past a lookup or a
\* check that finds nothing, and every GetOrNewCancellableMutex(k) and
\* GetMutex(k) that returns, returns the stored lock, whatever the calls
\* that raced before returned.
C23_Convergence ==
    [][\A k \in Keys \ {""} :
          /\ (ret'.op = "GetOrNew" /\ ret'.key = k) => regs'[registry'][k] # NoObj
          /\ (regs[registry][k] # NoObj /\ Stragglers(k) = {})
                => /\ regs'[registry'][k] = regs[registry][k]
                   /\ Stragglers(k)' = {}
                   /\ (ret'.op \in {"GetOrNew", "GetMutex"} /\ ret'.key = k)
                         => (ret'.some /\ ret'.value = regs[registry][k])
                   /\ (ret'.op = "Register" /\ ret'.key = k) => ret'.err = "AlreadyRegistered"]_vars

\* C23 witness: after two racing GetOrNewCancellableMutex("a") calls returned
\* two different locks, a later GetOrNewCancellableMutex("a") has returned the
\* one of them that is stored in the registry.
C23_Witness ==
    \E p \in Procs, q \in Procs :
        /\ ret.op = "GetOrNew" /\ ret.key = "a" /\ ret.some /\ ret.proc = p
        /\ ret.value = regs[registry]["a"]
        /\ p # q /\ got[q] \in Objs \ {ret.value} /\ GetKey(got[q]) = "a"
        /\ stored[registry]["a"] = ret.value
        /\ Stragglers("a") = {}


=============================================================================
